---- MODULE Spec2Model ----
(***************************************************************************)
(* Model of mw.py, a medium wave style audio player.                       *)
(*                                                                         *)
(* main() locates ffplay and ffmpeg, asks for a folder, lists and sorts    *)
(* the supported audio files, and for each file renders it with ffmpeg     *)
(* into a fresh temporary directory (mix_to_temp_wav), plays the rendered  *)
(* file with ffplay (play_wav_with_ffplay) and removes the temporary       *)
(* directory.  On Windows with msvcrt the playback is polled and the keys  *)
(* n and q skip the track or quit the run.                                 *)
(*                                                                         *)
(* The environment is part of the model: the external processes (their     *)
(* exit, their failure to start), the file system (mkdtemp and rmtree may  *)
(* raise OSError), the console key buffer, and Ctrl+C.  KeyboardInterrupt  *)
(* is delivered where the program waits on something external: the folder  *)
(* dialog, the ffmpeg run, the blocking ffplay run and the poll loop.      *)
(*                                                                         *)
(* File names are sequences of character codes, so that lower(), endswith  *)
(* and the ordering of list.sort() are computed as Python computes them.   *)
(***************************************************************************)
EXTENDS Naturals, Sequences, FiniteSets

(* ----------------------------- bounds --------------------------------- *)

\* Number of audio files of the name universe that may be in the folder.
MaxFiles == 2

\* Number of key presses the user makes in one run.
MaxKeys == 2

(* --------------------------- file names ------------------------------- *)

\* str.lower() on one character code: A..Z become a..z.
LowerChar(c) == IF c >= 65 /\ c <= 90 THEN c + 32 ELSE c

\* str.lower()
Lower(s) == [i \in 1..Len(s) |-> LowerChar(s[i])]

\* str.endswith(suffix) for one suffix
EndsWith(s, suf) ==
    /\ Len(suf) <= Len(s)
    /\ SubSeq(s, Len(s) - Len(suf) + 1, Len(s)) = suf

\* ".mp3", ".wav", ".flac", ".ogg", ".m4a", ".aac", ".wma", ".opus"
SUPPORTED_EXTENSIONS ==
    << <<46, 109, 112, 51>>,
       <<46, 119, 97, 118>>,
       <<46, 102, 108, 97, 99>>,
       <<46, 111, 103, 103>>,
       <<46, 109, 52, 97>>,
       <<46, 97, 97, 99>>,
       <<46, 119, 109, 97>>,
       <<46, 111, 112, 117, 115>> >>

\* A variant of HasSupportedExtension that compares the name as it is spelled,
\* as f.endswith(SUPPORTED_EXTENSIONS).
HasSupportedExtension_CaseSensitive(f) ==
    \E i \in 1..Len(SUPPORTED_EXTENSIONS) : EndsWith(f, SUPPORTED_EXTENSIONS[i])

\* f.lower().endswith(SUPPORTED_EXTENSIONS)
HasSupportedExtension(f) ==
    \E i \in 1..Len(SUPPORTED_EXTENSIONS) : EndsWith(Lower(f), SUPPORTED_EXTENSIONS[i])

\* Python's str ordering: lexicographic by code point, a proper prefix first.
RECURSIVE StrLess(_, _)
StrLess(a, b) ==
    IF Len(b) = 0 THEN FALSE
    ELSE IF Len(a) = 0 THEN TRUE
    ELSE IF Head(a) # Head(b) THEN Head(a) < Head(b)
    ELSE StrLess(Tail(a), Tail(b))

\* A variant of SortNames that sorts descending, as files.sort(reverse=True).
RECURSIVE SortNames_Desc(_)
SortNames_Desc(S) ==
    IF S = {} THEN << >>
    ELSE LET m == CHOOSE x \in S : \A y \in S \ {x} : StrLess(y, x)
         IN  <<m>> \o SortNames_Desc(S \ {m})

\* list.sort() on a list of distinct names: the least name first.
RECURSIVE SortNames(_)
SortNames(S) ==
    IF S = {} THEN << >>
    ELSE LET m == CHOOSE x \in S : \A y \in S \ {x} : StrLess(x, y)
         IN  <<m>> \o SortNames(S \ {m})

\* The audio files the folder may hold: "B.WAV", "a.mp3", "a.mp3.OGG", "b.opus".
AudioNames ==
    << <<66, 46, 87, 65, 86>>,
       <<97, 46, 109, 112, 51>>,
       <<97, 46, 109, 112, 51, 46, 79, 71, 71>>,
       <<98, 46, 111, 112, 117, 115>> >>

\* "c.txt", a regular file that is no audio file.
TextName == <<99, 46, 116, 120, 116>>

\* "d.ogg", the name of a sub-directory.
SubDirName == <<100, 46, 111, 103, 103>>

\* The audio files that may be in the folder, as directory entries
\* [name, isfile].
AudioEntries ==
    { [name |-> AudioNames[i], isfile |-> TRUE] :
         i \in 1..(IF MaxFiles < Len(AudioNames) THEN MaxFiles ELSE Len(AudioNames)) }

\* The entries of the folder that are no audio files.
OtherEntries ==
    { [name |-> TextName, isfile |-> TRUE],
      [name |-> SubDirName, isfile |-> FALSE] }

\* Every directory entry a folder may hold.
EntryUniverse == AudioEntries \cup OtherEntries

\* The most tracks a playlist can have.
MaxTracks == Cardinality({e \in EntryUniverse : e.isfile /\ HasSupportedExtension(e.name)})

Tracks == 1..MaxTracks

\* main(): the list comprehension over os.listdir(folder) and files.sort().
ListFiles(entries) ==
    SortNames({e.name : e \in {x \in entries : x.isfile /\ HasSupportedExtension(x.name)}})

(* --------------------------- filter graph ----------------------------- *)

\* The filter_complex string is a list of chains separated by ";". A chain is
\* written [in pins] filter,filter,... [out pins] and is modelled by the pins
\* it consumes, the names of its filters and the pins it produces.

\* "[0:a]aformat=...,highpass=...,...,volume=0dB[a0];"
main_chain ==
    << [ins |-> << "0:a" >>,
        filters |-> << "aformat", "highpass", "lowpass", "equalizer", "equalizer",
                       "equalizer", "acrusher", "volume" >>,
        outs |-> << "a0" >>] >>

\* "sine=...[wsrc];[wsrc]tremolo=...,vibrato=...,aformat=...,volume=0.05[w1];"
whistle ==
    << [ins |-> << >>, filters |-> << "sine" >>, outs |-> << "wsrc" >>],
       [ins |-> << "wsrc" >>,
        filters |-> << "tremolo", "vibrato", "aformat", "volume" >>,
        outs |-> << "w1" >>] >>

\* "anoisesrc=...[nk];[nk]highpass=...,...,volume=0.12[k1];"
crackle ==
    << [ins |-> << >>, filters |-> << "anoisesrc" >>, outs |-> << "nk" >>],
       [ins |-> << "nk" >>,
        filters |-> << "highpass", "lowpass", "acrusher", "tremolo", "aformat",
                       "volume" >>,
        outs |-> << "k1" >>] >>

\* "[w1][k1]amix=inputs=2:normalize=0[w];"
effects_mix ==
    << [ins |-> << "w1", "k1" >>, filters |-> << "amix" >>, outs |-> << "w" >>] >>

\* A variant of mix_chain that reads the music from a pin [a1].
mix_chain_WrongPin ==
    << [ins |-> << "a1", "w" >>, filters |-> << "amix" >>, outs |-> << "out" >>] >>

\* "[a0][w]amix=inputs=2:duration=first:normalize=0[out]"
mix_chain ==
    << [ins |-> << "a0", "w" >>, filters |-> << "amix" >>, outs |-> << "out" >>] >>

\* return main_chain + whistle + crackle + effects_mix + mix_chain
build_filter_complex_for_music_plus_effects ==
    main_chain \o whistle \o crackle \o effects_mix \o mix_chain

(* ------------------------------ state --------------------------------- *)

VARIABLES
    osName,       \* os.name: "nt" or "posix"
    hasMsvcrt,    \* whether "import msvcrt" succeeds
    ffplayFound,  \* whether find_ffplay() finds the binary
    ffmpegFound,  \* whether find_ffmpeg() finds the binary
    entries,      \* the directory entries of the folder the user can choose
    pc,           \* where main() is
    files,        \* main(): the sorted list of file names
    idx,          \* main(): position of the for loop in files (1-based)
    result,       \* main(): the last value play_wav_with_ffplay returned
    exc,          \* the exception propagating out of play_wav_with_ffplay
    STOP_ALL,     \* the module-level quit switch
    keybuf,       \* the console's buffer of pending key presses
    keysPressed,  \* how many keys the user has pressed so far
    tmpDir,       \* per track: the directory made by mkdtemp
    ffplay,       \* per track: the ffplay child process
    render,       \* per track: how mix_to_temp_wav went
    play,         \* per track: how play_wav_with_ffplay went
    lastEvent,    \* per track: the last thing the playback saw: a key read, the
                  \* child's exit ("exit") or Ctrl+C ("interrupt")
    termSent,     \* per track: whether proc.terminate() was called
    cleanup,      \* per track: what main's finally block did
    mixCleanup,   \* per track: what mix_to_temp_wav's except block did
    stopWrites,   \* how many times STOP_ALL was assigned
    cmd,          \* the ffmpeg command line mix_to_temp_wav built last: its
                  \* filter graph and the pin its -map option names
    freshKeys     \* how many of the keys waiting in keybuf (its last ones) were
                  \* pressed while the current playback was being polled

vars == << osName, hasMsvcrt, ffplayFound, ffmpegFound, entries, pc, files, idx,
           result, exc, STOP_ALL, keybuf, keysPressed, tmpDir, ffplay, render,
           play, lastEvent, termSent, cleanup, mixCleanup, stopWrites, cmd, freshKeys >>

envVars == << osName, hasMsvcrt, ffplayFound, ffmpegFound, entries >>

\* The keys the user may press; "x" stands for every key without a meaning.
Keys == {"n", "N", "q", "Q", "x"}

\* Where main() has ended.
\*   "exit1"        sys.exit(1) in find_ffplay / find_ffmpeg
\*   "returned"     an early return of main(): no folder, no files
\*   "done"         the summary line was printed and main() returned
\*   "interrupted"  __main__ caught KeyboardInterrupt: notice, sys.exit(0)
\*   "crashed"      an exception nobody catches left main(): traceback, status 1
EndStates == {"exit1", "returned", "done", "interrupted", "crashed"}

Ended == pc \in EndStates

\* A variant of STOP_ALL_Init: the switch starts set.
STOP_ALL_Init_True == TRUE

\* STOP_ALL = False at import time.
STOP_ALL_Init == FALSE

\* A variant of Interactive without the ImportError fallback: every Windows
\* run polls the keyboard.
Interactive_AnyWindows == osName = "nt"

\* play_wav_with_ffplay takes the Windows branch and msvcrt imports.
Interactive == osName = "nt" /\ hasMsvcrt

Init ==
    /\ osName \in {"nt", "posix"}
    /\ hasMsvcrt \in BOOLEAN
    /\ (osName = "posix" => ~hasMsvcrt)
    /\ ffplayFound \in BOOLEAN
    /\ ffmpegFound \in BOOLEAN
    /\ entries \in {A \cup OtherEntries : A \in SUBSET AudioEntries}
    /\ pc = "find_ffplay"
    /\ files = << >>
    /\ idx = 0
    /\ result = "none"
    /\ exc = "none"
    /\ STOP_ALL = STOP_ALL_Init
    /\ keybuf = << >>
    /\ keysPressed = 0
    /\ tmpDir = [t \in Tracks |-> "none"]
    /\ ffplay = [t \in Tracks |-> "none"]
    /\ render = [t \in Tracks |-> "none"]
    /\ play = [t \in Tracks |-> "none"]
    /\ lastEvent = [t \in Tracks |-> "none"]
    /\ termSent = [t \in Tracks |-> FALSE]
    /\ cleanup = [t \in Tracks |-> "none"]
    /\ mixCleanup = [t \in Tracks |-> "none"]
    /\ stopWrites = 0
    /\ cmd = [filter_complex |-> << >>, map |-> ""]
    /\ freshKeys = 0

(* ----------------------------- startup -------------------------------- *)

\* find_ffplay(): the path, or the diagnostic and sys.exit(1).
find_ffplay ==
    /\ pc = "find_ffplay"
    /\ pc' = IF ffplayFound THEN "find_ffmpeg" ELSE "exit1"
    /\ UNCHANGED << envVars, cmd, freshKeys, files, idx, result, exc, STOP_ALL,
                    keybuf, keysPressed, tmpDir, ffplay, render, play,
                    lastEvent, termSent, cleanup, mixCleanup, stopWrites >>

\* find_ffmpeg(): the path, or the diagnostic and sys.exit(1).
find_ffmpeg ==
    /\ pc = "find_ffmpeg"
    /\ pc' = IF ffmpegFound THEN "choose_folder" ELSE "exit1"
    /\ UNCHANGED << envVars, cmd, freshKeys, files, idx, result, exc, STOP_ALL,
                    keybuf, keysPressed, tmpDir, ffplay, render, play,
                    lastEvent, termSent, cleanup, mixCleanup, stopWrites >>

\* choose_folder() and the two checks of its answer: the dialog is cancelled
\* (""), the path is no folder, or it is the folder.
choose_folder ==
    /\ pc = "choose_folder"
    /\ \E folder \in {"", "notadir", "dir"} :
          pc' = IF folder = "dir" THEN "listdir" ELSE "returned"
    /\ UNCHANGED << envVars, cmd, freshKeys, files, idx, result, exc, STOP_ALL,
                    keybuf, keysPressed, tmpDir, ffplay, render, play,
                    lastEvent, termSent, cleanup, mixCleanup, stopWrites >>

\* A variant of TopLevel without the KeyboardInterrupt handler of __main__.
TopLevel_NoHandler(e) == "crashed"

\* What __main__ does with an exception that leaves main().
TopLevel(e) == IF e = "KeyboardInterrupt" THEN "interrupted" ELSE "crashed"

\* The exit status of the process for each way the run ends: sys.exit(1) after
\* the diagnostic, an exception that leaves the script (the interpreter's
\* status for a traceback is 1), sys.exit(0) in the KeyboardInterrupt handler,
\* and the end of the script after main() returned.
ExitStatus(end) == IF end \in {"exit1", "crashed"} THEN 1 ELSE 0

\* Ctrl+C while the folder dialog is open.
choose_folder_interrupt ==
    /\ pc = "choose_folder"
    /\ pc' = TopLevel("KeyboardInterrupt")
    /\ UNCHANGED << envVars, cmd, freshKeys, files, idx, result, exc, STOP_ALL,
                    keybuf, keysPressed, tmpDir, ffplay, render, play,
                    lastEvent, termSent, cleanup, mixCleanup, stopWrites >>

\* The file list: filter, sort, and the "no supported audio files" return.
list_files ==
    /\ pc = "listdir"
    /\ files' = ListFiles(entries)
    /\ IF files' = << >>
         THEN pc' = "returned" /\ idx' = idx
         ELSE pc' = "loop" /\ idx' = 1
    /\ UNCHANGED << envVars, cmd, freshKeys, result, exc, STOP_ALL, keybuf,
                    keysPressed, tmpDir, ffplay, render, play, lastEvent,
                    termSent, cleanup, mixCleanup, stopWrites >>

(* --------------------------- the track loop --------------------------- *)

\* "for filename in files: if STOP_ALL: break": whether the loop body runs.
LoopContinues(i, n, stop) == i <= n /\ ~stop

\* The head of the for loop; leaving the loop prints the summary line.
loop_head ==
    /\ pc = "loop"
    /\ pc' = IF LoopContinues(idx, Len(files), STOP_ALL) THEN "mkdtemp" ELSE "done"
    /\ UNCHANGED << envVars, cmd, freshKeys, files, idx, result, exc, STOP_ALL,
                    keybuf, keysPressed, tmpDir, ffplay, render, play,
                    lastEvent, termSent, cleanup, mixCleanup, stopWrites >>

\* mix_to_temp_wav: "except subprocess.CalledProcessError".
mix_handles(e) == e = "CalledProcessError"

\* A variant of main_catches for "except subprocess.CalledProcessError" in
\* main, which lets a failure to start ffmpeg leave main().
main_catches_CalledOnly(e) == e = "CalledProcessError"

\* main: "except Exception" around mix_to_temp_wav.  KeyboardInterrupt is a
\* BaseException and no Exception.
main_catches(e) == e \in {"CalledProcessError", "OSError"}

\* shutil.rmtree(tmp_dir) behind "if os.path.isdir(tmp_dir)", OSError
\* swallowed: the directory's state afterwards.
rmtree(dir, rmOk) == IF dir = "exists" /\ rmOk THEN "removed" ELSE dir

\* What a removal attempt did, for the record.
Attempt(dir, rmOk) ==
    IF dir # "exists" THEN "nodir" ELSE IF rmOk THEN "removed" ELSE "failed"

\* mix_to_temp_wav ends with outcome o ("ok" or the exception raised), and
\* main's try/except around it acts on it: go on to playback, continue with
\* the next file, or let the exception leave main().
RenderEnds(o, rmOk) ==
    /\ render' = [render EXCEPT ![idx] = o]
    /\ IF o # "ok" /\ mix_handles(o)
         THEN /\ tmpDir' = [tmpDir EXCEPT ![idx] = rmtree(tmpDir[idx], rmOk)]
              /\ mixCleanup' = [mixCleanup EXCEPT ![idx] = Attempt(tmpDir[idx], rmOk)]
         ELSE UNCHANGED << tmpDir, mixCleanup >>
    /\ IF o = "ok" THEN pc' = "play" /\ idx' = idx
       ELSE IF main_catches(o) THEN pc' = "loop" /\ idx' = idx + 1
       ELSE pc' = TopLevel(o) /\ idx' = idx

\* tempfile.mkdtemp(): a fresh directory, or OSError before the try block;
\* then the command line with the filter graph and "-map [out]".
mkdtemp ==
    /\ pc = "mkdtemp"
    /\ \E ok \in BOOLEAN :
          IF ok
            THEN /\ tmpDir' = [tmpDir EXCEPT ![idx] = "exists"]
                 /\ cmd' = [filter_complex |->
                               build_filter_complex_for_music_plus_effects,
                            map |-> "out"]
                 /\ render' = [render EXCEPT ![idx] = "running"]
                 /\ pc' = "render"
                 /\ UNCHANGED << idx, mixCleanup >>
            ELSE /\ render' = [render EXCEPT ![idx] = "OSError"]
                 /\ IF main_catches("OSError")
                      THEN pc' = "loop" /\ idx' = idx + 1
                      ELSE pc' = TopLevel("OSError") /\ idx' = idx
                 /\ UNCHANGED << tmpDir, mixCleanup, cmd >>
    /\ UNCHANGED << envVars, freshKeys, files, result, exc, STOP_ALL, keybuf,
                    keysPressed, ffplay, play, lastEvent, termSent, cleanup,
                    stopWrites >>

\* subprocess.run(cmd, check=True): ffmpeg cannot be started (OSError), exits
\* with a non-zero status (CalledProcessError), or exits with status 0.
run_ffmpeg ==
    /\ pc = "render"
    /\ \E o \in {"OSError", "CalledProcessError", "ok"}, rmOk \in BOOLEAN :
          RenderEnds(o, rmOk)
    /\ UNCHANGED << envVars, cmd, freshKeys, files, result, exc, STOP_ALL,
                    keybuf, keysPressed, ffplay, play, lastEvent, termSent,
                    cleanup, stopWrites >>

\* A variant of run_ffmpeg_interrupt in which Ctrl+C during the render is
\* handled as in the poll loop: the quit flag is set and main goes on.
run_ffmpeg_interrupt_SetsFlag ==
    /\ pc = "render"
    /\ render' = [render EXCEPT ![idx] = "KeyboardInterrupt"]
    /\ STOP_ALL' = TRUE
    /\ stopWrites' = stopWrites + 1
    /\ pc' = "loop"
    /\ idx' = idx + 1
    /\ UNCHANGED << envVars, cmd, freshKeys, files, result, exc, keybuf,
                    keysPressed, tmpDir, mixCleanup, ffplay, play, lastEvent,
                    termSent, cleanup >>

\* Ctrl+C while ffmpeg runs: subprocess.run kills the child and re-raises.
run_ffmpeg_interrupt ==
    /\ pc = "render"
    /\ \E rmOk \in BOOLEAN : RenderEnds("KeyboardInterrupt", rmOk)
    /\ UNCHANGED << envVars, cmd, freshKeys, files, result, exc, STOP_ALL,
                    keybuf, keysPressed, ffplay, play, lastEvent, termSent,
                    cleanup, stopWrites >>

(* ------------------------------ playback ------------------------------ *)

\* proc.terminate() on a child in state st: a running child is asked to end
\* and ends later; nobody waits for it.
terminate(st) == IF st = "running" THEN "terminating" ELSE st

\* A variant of KeyOutcome that knows the quit key in lower case only,
\* as if the test were "ch == b'q'".
KeyOutcome_LowerQ(ch) ==
    IF ch \in {"n", "N"} THEN "next"
    ELSE IF ch = "q" THEN "quit"
    ELSE "none"

\* A variant of KeyOutcome that knows the skip key in lower case only,
\* as if the test were "ch == b'n'".
KeyOutcome_LowerN(ch) ==
    IF ch = "n" THEN "next"
    ELSE IF ch \in {"q", "Q"} THEN "quit"
    ELSE "none"

\* The branch the poll loop takes on the key ch that msvcrt.getch() returned.
KeyOutcome(ch) ==
    IF ch \in {"n", "N"} THEN "next"
    ELSE IF ch \in {"q", "Q"} THEN "quit"
    ELSE "none"

\* play_wav_with_ffplay returns r to main because of why.
PlayReturns(r, why) ==
    /\ result' = r
    /\ play' = [play EXCEPT ![idx] = r]
    /\ lastEvent' = [lastEvent EXCEPT ![idx] = why]
    /\ pc' = "cleanup"

\* The playback process is started: subprocess.Popen in the branch that polls
\* the keyboard, subprocess.run in the two branches that block.  A binary
\* that cannot be run raises OSError, which leaves play_wav_with_ffplay.
start_play ==
    /\ pc = "play"
    /\ \E started \in BOOLEAN :
          IF started
            THEN /\ ffplay' = [ffplay EXCEPT ![idx] = "running"]
                 /\ play' = [play EXCEPT ![idx] = "running"]
                 /\ pc' = IF Interactive THEN "poll" ELSE "wait"
                 /\ exc' = exc
            ELSE /\ play' = [play EXCEPT ![idx] = "OSError"]
                 /\ exc' = "OSError"
                 /\ pc' = "cleanup"
                 /\ ffplay' = ffplay
    /\ UNCHANGED << envVars, cmd, freshKeys, files, idx, result, STOP_ALL,
                    keybuf, keysPressed, tmpDir, render, lastEvent, termSent,
                    cleanup, mixCleanup, stopWrites >>

\* "while proc.poll() is None": the child has exited and the function
\* returns "done", or the loop body runs.
poll_check ==
    /\ pc = "poll"
    /\ IF ffplay[idx] = "exited"
         THEN PlayReturns("done", "exit")
         ELSE pc' = "kbhit" /\ UNCHANGED << result, play, lastEvent >>
    /\ UNCHANGED << envVars, cmd, freshKeys, files, idx, exc, STOP_ALL, keybuf,
                    keysPressed, tmpDir, ffplay, render, termSent, cleanup,
                    mixCleanup, stopWrites >>

\* The key msvcrt.getch() would return was pressed during this playback's poll
\* loop: the console buffer is first-in first-out, so the keys pressed before
\* the loop started are read first.
HeadIsFresh == keybuf # << >> /\ freshKeys = Len(keybuf)

\* A variant of key_check that looks at the waiting key without taking it out
\* of the console buffer.
key_check_NoConsume ==
    /\ pc = "kbhit"
    /\ IF keybuf = << >>
         THEN /\ pc' = "sleep"
              /\ UNCHANGED << result, play, lastEvent, ffplay, termSent,
                              STOP_ALL, stopWrites >>
         ELSE IF KeyOutcome(Head(keybuf)) = "none"
                THEN /\ pc' = "sleep"
                     /\ lastEvent' = [lastEvent EXCEPT ![idx] = Head(keybuf)]
                     /\ UNCHANGED << result, play, ffplay, termSent, STOP_ALL,
                                     stopWrites >>
                ELSE /\ ffplay' = [ffplay EXCEPT ![idx] = terminate(ffplay[idx])]
                     /\ termSent' = [termSent EXCEPT ![idx] = TRUE]
                     /\ IF KeyOutcome(Head(keybuf)) = "quit"
                          THEN STOP_ALL' = TRUE /\ stopWrites' = stopWrites + 1
                          ELSE UNCHANGED << STOP_ALL, stopWrites >>
                     /\ PlayReturns(KeyOutcome(Head(keybuf)), Head(keybuf))
    /\ UNCHANGED << envVars, cmd, keybuf, freshKeys, files, idx, exc,
                    keysPressed, tmpDir, render, cleanup, mixCleanup >>

\* "if msvcrt.kbhit(): ch = msvcrt.getch()" and the two key branches.
key_check ==
    /\ pc = "kbhit"
    /\ IF keybuf = << >>
         THEN /\ pc' = "sleep"
              /\ UNCHANGED << keybuf, freshKeys, result, play, lastEvent,
                              ffplay, termSent, STOP_ALL, stopWrites >>
         ELSE /\ keybuf' = Tail(keybuf)
              /\ freshKeys' = IF HeadIsFresh THEN freshKeys - 1 ELSE freshKeys
              /\ IF KeyOutcome(Head(keybuf)) = "none"
                   THEN /\ pc' = "sleep"
                        /\ lastEvent' = [lastEvent EXCEPT ![idx] = Head(keybuf)]
                        /\ UNCHANGED << result, play, ffplay, termSent,
                                        STOP_ALL, stopWrites >>
                   ELSE /\ ffplay' = [ffplay EXCEPT ![idx] = terminate(ffplay[idx])]
                        /\ termSent' = [termSent EXCEPT ![idx] = TRUE]
                        /\ IF KeyOutcome(Head(keybuf)) = "quit"
                             THEN STOP_ALL' = TRUE /\ stopWrites' = stopWrites + 1
                             ELSE UNCHANGED << STOP_ALL, stopWrites >>
                        /\ PlayReturns(KeyOutcome(Head(keybuf)), Head(keybuf))
    /\ UNCHANGED << envVars, cmd, files, idx, exc, keysPressed, tmpDir, render,
                    cleanup, mixCleanup >>

\* time.sleep(0.1), then the loop condition again.
sleep ==
    /\ pc = "sleep"
    /\ pc' = "poll"
    /\ UNCHANGED << envVars, cmd, freshKeys, files, idx, result, exc, STOP_ALL,
                    keybuf, keysPressed, tmpDir, ffplay, render, play,
                    lastEvent, termSent, cleanup, mixCleanup, stopWrites >>

\* A variant of play_interrupt for a poll loop without its
\* "except KeyboardInterrupt": Ctrl+C leaves play_wav_with_ffplay.
play_interrupt_Uncaught ==
    /\ pc \in {"poll", "kbhit", "sleep"}
    /\ lastEvent' = [lastEvent EXCEPT ![idx] = "interrupt"]
    /\ play' = [play EXCEPT ![idx] = "KeyboardInterrupt"]
    /\ exc' = "KeyboardInterrupt"
    /\ pc' = "cleanup"
    /\ UNCHANGED << envVars, cmd, freshKeys, files, idx, result, STOP_ALL,
                    keybuf, keysPressed, tmpDir, ffplay, render, termSent,
                    cleanup, mixCleanup, stopWrites >>

\* "except KeyboardInterrupt" around the poll loop.
play_interrupt ==
    /\ pc \in {"poll", "kbhit", "sleep"}
    /\ ffplay' = [ffplay EXCEPT ![idx] = terminate(ffplay[idx])]
    /\ termSent' = [termSent EXCEPT ![idx] = TRUE]
    /\ STOP_ALL' = TRUE
    /\ stopWrites' = stopWrites + 1
    /\ PlayReturns("quit", "interrupt")
    /\ UNCHANGED << envVars, cmd, freshKeys, files, idx, exc, keybuf,
                    keysPressed, tmpDir, render, cleanup, mixCleanup >>

\* subprocess.run(cmd, check=False) returns when the child has exited.
wait_done ==
    /\ pc = "wait"
    /\ ffplay[idx] = "exited"
    /\ PlayReturns("done", "exit")
    /\ UNCHANGED << envVars, cmd, freshKeys, files, idx, exc, STOP_ALL, keybuf,
                    keysPressed, tmpDir, ffplay, render, termSent, cleanup,
                    mixCleanup, stopWrites >>

\* Ctrl+C during subprocess.run: it kills the child, waits for it and
\* re-raises; nothing in play_wav_with_ffplay catches the exception here.
wait_interrupt ==
    /\ pc = "wait"
    /\ ffplay' = [ffplay EXCEPT ![idx] = "exited"]
    /\ play' = [play EXCEPT ![idx] = "KeyboardInterrupt"]
    /\ exc' = "KeyboardInterrupt"
    /\ pc' = "cleanup"
    /\ UNCHANGED << envVars, cmd, freshKeys, files, idx, result, STOP_ALL,
                    keybuf, keysPressed, tmpDir, render, lastEvent, termSent,
                    cleanup, mixCleanup, stopWrites >>

\* A variant of BreaksLoop without the "if result == 'quit': break".
BreaksLoop_Never(r) == FALSE

\* A variant of BreaksLoop that leaves the loop on a skip as well.
BreaksLoop_OnSkip(r) == r \in {"quit", "next"}

\* main: "if result == 'quit': break".
BreaksLoop(r) == r = "quit"

\* A variant of cleanup_step for a loop that does not move on to the next
\* file after the cleanup.
cleanup_step_NoAdvance ==
    /\ pc = "cleanup"
    /\ \E rmOk \in BOOLEAN :
          /\ tmpDir' = [tmpDir EXCEPT ![idx] = rmtree(tmpDir[idx], rmOk)]
          /\ cleanup' = [cleanup EXCEPT ![idx] = Attempt(tmpDir[idx], rmOk)]
    /\ IF exc # "none" THEN pc' = TopLevel(exc)
       ELSE IF BreaksLoop(result) THEN pc' = "done"
       ELSE pc' = "loop"
    /\ freshKeys' = 0
    /\ UNCHANGED << envVars, cmd, files, idx, result, exc, STOP_ALL, keybuf,
                    keysPressed, ffplay, render, play, lastEvent, termSent,
                    mixCleanup, stopWrites >>

\* A variant of cleanup_step without the "except OSError: pass": the OSError
\* of shutil.rmtree leaves the finally block and main().
cleanup_step_Unswallowed ==
    /\ pc = "cleanup"
    /\ \E rmOk \in BOOLEAN :
          /\ tmpDir' = [tmpDir EXCEPT ![idx] = rmtree(tmpDir[idx], rmOk)]
          /\ cleanup' = [cleanup EXCEPT ![idx] = Attempt(tmpDir[idx], rmOk)]
          /\ IF Attempt(tmpDir[idx], rmOk) = "failed"
               THEN pc' = TopLevel("OSError") /\ idx' = idx
             ELSE IF exc # "none" THEN pc' = TopLevel(exc) /\ idx' = idx
             ELSE IF BreaksLoop(result) THEN pc' = "done" /\ idx' = idx
             ELSE pc' = "loop" /\ idx' = idx + 1
    /\ freshKeys' = 0
    /\ UNCHANGED << envVars, cmd, files, result, exc, STOP_ALL, keybuf,
                    keysPressed, ffplay, render, play, lastEvent, termSent,
                    mixCleanup, stopWrites >>

\* main's finally block, and what follows it: the exception goes on to
\* __main__, or the result is looked at: break (and the summary line) or the
\* next file.
cleanup_step ==
    /\ pc = "cleanup"
    /\ \E rmOk \in BOOLEAN :
          /\ tmpDir' = [tmpDir EXCEPT ![idx] = rmtree(tmpDir[idx], rmOk)]
          /\ cleanup' = [cleanup EXCEPT ![idx] = Attempt(tmpDir[idx], rmOk)]
    /\ IF exc # "none" THEN pc' = TopLevel(exc) /\ idx' = idx
       ELSE IF BreaksLoop(result) THEN pc' = "done" /\ idx' = idx
       ELSE pc' = "loop" /\ idx' = idx + 1
    /\ freshKeys' = 0
    /\ UNCHANGED << envVars, cmd, files, result, exc, STOP_ALL, keybuf,
                    keysPressed, ffplay, render, play, lastEvent, termSent,
                    mixCleanup, stopWrites >>

(* ---------------------------- environment ----------------------------- *)

\* An ffplay child ends: playback is over (-autoexit), or the terminate
\* request takes effect.
proc_exit ==
    /\ \E t \in Tracks :
          /\ ffplay[t] \in {"running", "terminating"}
          /\ ffplay' = [ffplay EXCEPT ![t] = "exited"]
    /\ UNCHANGED << envVars, cmd, freshKeys, pc, files, idx, result, exc,
                    STOP_ALL, keybuf, keysPressed, tmpDir, render, play,
                    lastEvent, termSent, cleanup, mixCleanup, stopWrites >>

\* The poll loop of play_wav_with_ffplay is running.
Polling == pc \in {"poll", "kbhit", "sleep"}

\* The user presses a key; the console keeps it until it is read.
key_press ==
    /\ ~Ended
    /\ keysPressed < MaxKeys
    /\ \E k \in Keys : keybuf' = Append(keybuf, k)
    /\ freshKeys' = IF Polling THEN freshKeys + 1 ELSE freshKeys
    /\ keysPressed' = keysPressed + 1
    /\ UNCHANGED << envVars, cmd, pc, files, idx, result, exc, STOP_ALL,
                    tmpDir, ffplay, render, play, lastEvent, termSent, cleanup,
                    mixCleanup, stopWrites >>

(* --------------------------- specification ---------------------------- *)

Next ==
    \/ find_ffplay
    \/ find_ffmpeg
    \/ choose_folder
    \/ choose_folder_interrupt
    \/ list_files
    \/ loop_head
    \/ mkdtemp
    \/ run_ffmpeg
    \/ run_ffmpeg_interrupt
    \/ start_play
    \/ poll_check
    \/ key_check
    \/ sleep
    \/ play_interrupt
    \/ wait_done
    \/ wait_interrupt
    \/ cleanup_step
    \/ proc_exit
    \/ key_press

Spec == Init /\ [][Next]_vars

\* The steps of the program itself: every statement of the single thread is
\* executed once control reaches it, the folder dialog is answered, and
\* subprocess.run returns once the ffmpeg child has exited.
MainStep ==
    \/ find_ffplay
    \/ find_ffmpeg
    \/ choose_folder
    \/ list_files
    \/ loop_head
    \/ mkdtemp
    \/ run_ffmpeg
    \/ start_play
    \/ poll_check
    \/ key_check
    \/ sleep
    \/ wait_done
    \/ cleanup_step

\* The run under the assumptions that the program keeps running and that
\* every child process exits; Ctrl+C and key presses may or may not happen.
FairSpec == Init /\ [][Next]_vars /\ WF_vars(MainStep) /\ WF_vars(proc_exit)

(* ------------------------------ claims -------------------------------- *)

\* The events that raise the global quit condition during a playback.
QuitEvents == {"q", "Q", "interrupt"}

\* The events that are a skip request.
SkipEvents == {"n", "N"}

\* Track k was started at all.
Started(k) == render[k] # "none"

\* No part of track k has happened: no directory, no render, no playback.
Untouched(k) ==
    /\ render[k] = "none"
    /\ play[k] = "none"
    /\ ffplay[k] = "none"
    /\ tmpDir[k] = "none"

\* C1: quit semantics.  Once a q/Q key was read or Ctrl+C was caught during
\* the playback of track k, no track after k is rendered or played, the quit
\* flag is set, main is in k's cleanup or has printed the summary line, and
\* when the run has ended it has ended with the summary line.
C1_QuitStopsPlaylist ==
    \A k \in Tracks :
        lastEvent[k] \in QuitEvents =>
            /\ \A j \in Tracks : j > k => Untouched(j)
            /\ idx = k
            /\ STOP_ALL
            /\ pc \in {"cleanup", "done"}
            /\ (Ended => pc = "done")

\* C1 witness: the run has ended after a quit during a track that was not
\* the last of the playlist.
C1_Witness ==
    \E k \in Tracks :
        /\ lastEvent[k] \in QuitEvents
        /\ k < Len(files)
        /\ pc = "done"

\* C2: after any render attempt and any playback attempt, the temporary
\* directory of a track does not exist once the track's cycle in main is
\* over, that is once main is at a later track or the run has ended.
C2_TempDirGoneAfterCycle ==
    \A k \in Tracks :
        (Started(k) /\ (idx > k \/ Ended)) => tmpDir[k] # "exists"

\* The render of track k failed: ffmpeg exited with a non-zero status
\* (CalledProcessError) or could not be started (OSError with the directory
\* already made).
RenderFailed(k) ==
    \/ render[k] = "CalledProcessError"
    \/ render[k] = "OSError" /\ tmpDir[k] # "none"

\* C3: if the render of track k fails, playback is never started for k and
\* the playlist goes on: main is past k, the run did not end at k, and at the
\* head of the loop the next track is admitted.
C3_RenderFailureSkipsTrack ==
    \A k \in Tracks :
        RenderFailed(k) =>
            /\ play[k] = "none"
            /\ ffplay[k] = "none"
            /\ idx > k
            /\ ((pc = "loop" /\ idx = k + 1 /\ k < Len(files)) =>
                    LoopContinues(idx, Len(files), STOP_ALL))

\* C3 witness: ffmpeg could not be started for the first track, and the
\* second track was rendered and played to its end.
C3_Witness ==
    /\ render[1] = "OSError"
    /\ tmpDir[1] # "none"
    /\ Len(files) >= 2
    /\ render[2] = "ok"
    /\ play[2] = "done"

\* The playback process of track k was asked to end, or has ended.
Stopped(k) == ffplay[k] \in {"terminating", "exited"}

\* main's finally block has run for track k, and the directory is gone
\* unless rmtree raised.
CleanupRan(k) ==
    /\ cleanup[k] \in {"removed", "failed"}
    /\ (cleanup[k] = "removed" => tmpDir[k] = "removed")

\* C4, as amended: a skip (n/N read) during the playback of track k sends
\* terminate to k's playback process; main then runs the removal of k's
\* temporary directory, which is gone unless the removal raised the OSError
\* that main swallows; and main goes on to track k+1, which the head of the
\* loop admits.
C4_SkipAdvances ==
    \A k \in Tracks :
        lastEvent[k] \in SkipEvents =>
            /\ play[k] = "next"
            /\ termSent[k]
            /\ Stopped(k)
            /\ \/ pc = "cleanup" /\ idx = k
               \/ idx > k /\ CleanupRan(k)
            /\ ((pc = "loop" /\ idx = k + 1 /\ k < Len(files)) =>
                    LoopContinues(idx, Len(files), STOP_ALL))

\* C4 witness: the first track was skipped and its directory removed, and
\* the second track was rendered and played to its end.
C4_Witness ==
    /\ lastEvent[1] \in SkipEvents
    /\ tmpDir[1] = "removed"
    /\ Len(files) >= 2
    /\ render[2] = "ok"
    /\ play[2] = "done"

\* C4 as stated: after a skip during track k the playback process was sent
\* terminate and, once main is past k's cleanup, k's temporary directory is
\* removed.
C4_SkipRemovesTempDir ==
    \A k \in Tracks :
        lastEvent[k] \in SkipEvents =>
            /\ termSent[k]
            /\ (idx > k => tmpDir[k] = "removed")

\* C5: in the mode that polls the keyboard, play_wav_with_ffplay returns
\* "next" exactly when the last key it read is n or N, "quit" exactly when
\* the last key it read is q or Q or Ctrl+C was caught, and "done" exactly
\* when it saw that the child had exited; with "next" and "quit" the child
\* was sent terminate, with "done" it was not.
C5_PlaybackOutcome ==
    Interactive =>
        \A k \in Tracks :
            /\ (play[k] = "next" <=> lastEvent[k] \in SkipEvents)
            /\ (play[k] = "quit" <=> lastEvent[k] \in QuitEvents)
            /\ (play[k] = "done" <=> lastEvent[k] = "exit")
            /\ (play[k] \in {"next", "quit"} => termSent[k] /\ Stopped(k))
            /\ (play[k] = "done" => ~termSent[k] /\ ffplay[k] = "exited")
            /\ (play[k] = "running" => ~termSent[k])

\* C5 witness: an upper case N skipped the first track and the second track
\* played to its end.
C5_Witness ==
    /\ Interactive
    /\ lastEvent[1] = "N"
    /\ play[1] = "next"
    /\ Len(files) >= 2
    /\ play[2] = "done"

\* C6, as amended: Ctrl+C caught in the poll loop of track k sends terminate
\* to the playback process, sets the quit flag and makes the function
\* return "quit"; no exception leaves main; main runs k's cleanup and ends
\* with the summary line, and the directory is gone unless the removal
\* raised the OSError that main swallows.
C6_InterruptIsOrderlyQuit ==
    \A k \in Tracks :
        lastEvent[k] = "interrupt" =>
            /\ termSent[k]
            /\ Stopped(k)
            /\ STOP_ALL
            /\ play[k] = "quit"
            /\ result = "quit"
            /\ exc = "none"
            /\ idx = k
            /\ pc \in {"cleanup", "done"}
            /\ (pc = "done" => CleanupRan(k))

\* C6 witness: Ctrl+C was caught during a playback and the run has ended
\* with the summary line and the directory removed.
C6_Witness ==
    \E k \in Tracks :
        /\ lastEvent[k] = "interrupt"
        /\ pc = "done"
        /\ tmpDir[k] = "removed"

\* C6 as stated: after Ctrl+C was caught in the poll loop of track k the run
\* ends with the summary line and with k's temporary directory cleaned.
C6_InterruptLeavesNoTempDir ==
    \A k \in Tracks :
        lastEvent[k] = "interrupt" =>
            /\ play[k] = "quit"
            /\ STOP_ALL
            /\ (Ended => pc = "done" /\ tmpDir[k] = "removed")

\* C7: on every render failure, non-zero exit or failure to start alike,
\* mix_to_temp_wav removes the directory it made before the failure reaches
\* main.  The removal is best-effort: one that raised counts as done.
C7_RenderFailureRemovesTempDir ==
    \A k \in Tracks :
        RenderFailed(k) => (tmpDir[k] = "removed" \/ mixCleanup[k] = "failed")

\* C8: STOP_ALL is false until it is written, it is written at most once,
\* only to TRUE and only by a q/Q key or Ctrl+C in the poll loop of a
\* playback, and once TRUE it stays TRUE.
C8_StopAllWrittenOnce ==
    /\ stopWrites <= 1
    /\ (STOP_ALL <=> stopWrites = 1)
    /\ (stopWrites = 1 =>
            \E k \in Tracks : lastEvent[k] \in QuitEvents /\ play[k] = "quit")

\* C8 witness: the switch was set and the run has ended.
C8_Witness == STOP_ALL /\ pc = "done"

\* Track k's cycle in main is over: its render has ended, its playback is
\* not running in main, and the removal that belongs to it has been made.
CycleOver(k) ==
    /\ render[k] \notin {"none", "running"}
    /\ play[k] # "running"
    /\ (render[k] = "ok" => cleanup[k] # "none")
    /\ (render[k] = "CalledProcessError" => mixCleanup[k] # "none")

C10_BlockingPlayback ==
    (osName # "nt" \/ ~hasMsvcrt) =>
        /\ ~STOP_ALL
        /\ stopWrites = 0
        /\ result \in {"none", "done"}
        /\ Len(keybuf) = keysPressed
        /\ pc \notin {"poll", "kbhit", "sleep"}
        /\ \A k \in Tracks :
              /\ play[k] \notin {"next", "quit"}
              /\ ~termSent[k]
              /\ (play[k] = "done" => ffplay[k] = "exited" /\ lastEvent[k] = "exit")

\* C10 witness: on Windows without msvcrt a track played to its end although
\* a quit key had been pressed.
C10_Witness ==
    /\ osName = "nt"
    /\ ~hasMsvcrt
    /\ play[1] = "done"
    /\ \E i \in 1..Len(keybuf) : keybuf[i] \in {"q", "Q"}

(* ------------------------- the folder listing ------------------------- *)

\* "mp3", a regular file whose name has no extension at all.
NoDotName == <<109, 112, 51>>

\* Every directory entry the listed folder may hold: the four audio files,
\* "c.txt", the sub-directory "d.ogg" and the file "mp3".
ListUniverse ==
    { [name |-> AudioNames[i], isfile |-> TRUE] : i \in 1..Len(AudioNames) }
       \cup OtherEntries \cup { [name |-> NoDotName, isfile |-> TRUE] }

\* The state at the start of main(), with any folder content.
InitList ==
    /\ osName \in {"nt", "posix"}
    /\ hasMsvcrt \in BOOLEAN
    /\ (osName = "posix" => ~hasMsvcrt)
    /\ ffplayFound \in BOOLEAN
    /\ ffmpegFound \in BOOLEAN
    /\ entries \in SUBSET ListUniverse
    /\ pc = "find_ffplay"
    /\ files = << >>
    /\ idx = 0
    /\ result = "none"
    /\ exc = "none"
    /\ STOP_ALL = STOP_ALL_Init
    /\ keybuf = << >>
    /\ keysPressed = 0
    /\ tmpDir = [t \in Tracks |-> "none"]
    /\ ffplay = [t \in Tracks |-> "none"]
    /\ render = [t \in Tracks |-> "none"]
    /\ play = [t \in Tracks |-> "none"]
    /\ lastEvent = [t \in Tracks |-> "none"]
    /\ termSent = [t \in Tracks |-> FALSE]
    /\ cleanup = [t \in Tracks |-> "none"]
    /\ mixCleanup = [t \in Tracks |-> "none"]
    /\ stopWrites = 0
    /\ cmd = [filter_complex |-> << >>, map |-> ""]
    /\ freshKeys = 0

\* main() up to the track loop.
NextList ==
    \/ find_ffplay
    \/ find_ffmpeg
    \/ choose_folder
    \/ choose_folder_interrupt
    \/ list_files

SpecList == InitList /\ [][NextList]_vars

\* The name is one of the four audio file names of the universe.
IsAudioName(n) == \E i \in 1..Len(AudioNames) : n = AudioNames[i]

\* The names of the regular files of the folder that are audio files.
AudioFilesOf(E) == { e.name : e \in { x \in E : x.isfile /\ IsAudioName(x.name) } }

\* C11: once the folder is listed, the track list holds exactly the regular
\* files whose lower-cased name ends in a supported extension, each once, in
\* strictly ascending name order; "c.txt", the file "mp3" and the
\* sub-directory "d.ogg" are never tracks. Before the listing, and when no
\* such file exists, the list is empty.
C11_TrackListIsSupportedFiles ==
    /\ idx = 0 => files = << >>
    /\ idx >= 1 =>
         /\ { files[i] : i \in 1..Len(files) } = AudioFilesOf(entries)
         /\ Len(files) = Cardinality(AudioFilesOf(entries))
         /\ Len(files) >= 1
         /\ \A i \in 1..(Len(files) - 1) : StrLess(files[i], files[i + 1])
         /\ \A i \in 1..Len(files) : files[i] \notin {TextName, SubDirName, NoDotName}

\* A folder with "B.WAV", "a.mp3.OGG", "c.txt", "mp3" and the directory
\* "d.ogg" was listed: the two audio files are the playlist.
C11_Witness ==
    /\ pc = "loop"
    /\ OtherEntries \subseteq entries
    /\ [name |-> NoDotName, isfile |-> TRUE] \in entries
    /\ files = << AudioNames[1], AudioNames[3] >>

(* -------------------------- the filter graph -------------------------- *)

SeqSet(s) == { s[i] : i \in 1..Len(s) }

\* The pins chain i of graph g reads and the pins it writes.
Consumes(g, i) == SeqSet(g[i].ins)
Produces(g, i) == SeqSet(g[i].outs)

\* Chain i writes a pin that chain j reads.
Feeds(g, i, j) == Produces(g, i) \cap Consumes(g, j) # {}

\* Chain j is reached from chain i along at most n pins.
RECURSIVE ReachesIn(_, _, _, _)
ReachesIn(g, i, j, n) ==
    /\ n > 0
    /\ \/ Feeds(g, i, j)
       \/ \E k \in 1..Len(g) : Feeds(g, i, k) /\ ReachesIn(g, k, j, n - 1)

Acyclic(g) == \A i \in 1..Len(g) : ~ReachesIn(g, i, i, Len(g))

\* The pins some chain writes and no chain reads.
OutputPins(g) ==
    { p \in UNION { Produces(g, i) : i \in 1..Len(g) } :
         \A j \in 1..Len(g) : p \notin Consumes(g, j) }

\* C12: in the filter graph of the command a render runs with, every pin a
\* chain consumes is the primary input [0:a] or was produced by an earlier
\* chain, every pin produced other than [out] is consumed by a later chain,
\* no chain feeds itself through any path, and [out] is the one pin left
\* over, which is the pin the command's -map option names.
C12_FilterGraphWellFormed ==
    pc = "render" =>
       LET g == cmd.filter_complex
       IN  /\ \A i \in 1..Len(g) : \A p \in Consumes(g, i) :
                  p = "0:a" \/ \E j \in 1..(i - 1) : p \in Produces(g, j)
           /\ \A i \in 1..Len(g) : \A p \in Produces(g, i) :
                  p = "out" \/ \E j \in (i + 1)..Len(g) : p \in Consumes(g, j)
           /\ Acyclic(g)
           /\ OutputPins(g) = {"out"}
           /\ cmd.map \in OutputPins(g)

\* A render is running with the seven-chain graph and "-map [out]".
C12_Witness ==
    /\ pc = "render"
    /\ render[idx] = "running"
    /\ Len(cmd.filter_complex) = 7
    /\ cmd.map = "out"

(* ------------------------- failed removals ---------------------------- *)

\* C13: a removal of a temporary directory that fails is swallowed. After a
\* playback of track k whose directory could not be removed, main acts on the
\* playback's outcome as it would have otherwise: after "done" or "next" it
\* has advanced past k, after "quit" it has left the loop at k and reached the
\* summary, and a run that crashed did so because a playback itself raised.
\* After a failed render whose directory could not be removed, track k is
\* not played and main has advanced past k.
C13_CleanupFailureSwallowed ==
    \A k \in Tracks :
       /\ cleanup[k] = "failed" =>
             /\ play[k] \in {"done", "next"} => idx > k
             /\ play[k] = "quit" => idx = k /\ pc = "done"
             /\ play[k] = "KeyboardInterrupt" => idx = k /\ pc = "interrupted"
             /\ play[k] = "OSError" => idx = k /\ pc = "crashed"
             /\ pc = "crashed" => play[idx] = "OSError"
       /\ mixCleanup[k] = "failed" =>
             /\ render[k] = "CalledProcessError"
             /\ play[k] = "none"
             /\ idx > k
             /\ pc = "crashed" => play[idx] = "OSError"

\* The removal failed after the failed render of track 1 and after the skipped
\* playback of track 2, and the run reached its summary.
C13_Witness ==
    /\ MaxTracks >= 2
    /\ mixCleanup[1] = "failed"
    /\ cleanup[2] = "failed"
    /\ play[2] = "next"
    /\ tmpDir[1] = "exists"
    /\ tmpDir[2] = "exists"
    /\ pc = "done"

(* --------------------------- abnormal ends ---------------------------- *)

\* The run ended abnormally: the diagnostic and sys.exit(1), or an exception
\* that left main() with a traceback.
Abnormal == pc \in {"exit1", "crashed"}

\* C14: a run ends abnormally only because ffplay or ffmpeg was not found at
\* startup, which happens before the folder is listed and before any track is
\* rendered or played; no error after startup ends the run abnormally.
C14_OnlyMissingEngineAborts ==
    Abnormal =>
       /\ ~ffplayFound \/ ~ffmpegFound
       /\ pc = "exit1"
       /\ files = << >>
       /\ idx = 0
       /\ \A k \in Tracks : Untouched(k)

(* ----------------------------- exit status ---------------------------- *)

\* Ctrl+C ended the render or the blocking playback of some track.
InterruptedInLoop ==
    \E k \in Tracks : render[k] = "KeyboardInterrupt" \/ play[k] = "KeyboardInterrupt"

\* C15: the process exits with status 0 when the run ended after the
\* playlist was exhausted, after a quit was requested during a playback,
\* after Ctrl+C ended a render or a blocking playback, and when it ended
\* before the first track with both binaries found (dialog cancelled or
\* interrupted, no audio files).
C15_ExitStatusZero ==
    Ended =>
       /\ (files # << >> /\ idx > Len(files)) => ExitStatus(pc) = 0
       /\ (\E k \in Tracks : lastEvent[k] \in QuitEvents) => ExitStatus(pc) = 0
       /\ InterruptedInLoop => ExitStatus(pc) = 0
       /\ (idx = 0 /\ ffplayFound /\ ffmpegFound) => ExitStatus(pc) = 0

\* Track 1 was played to its end and Ctrl+C ended the render of track 2.
C15_Witness ==
    /\ MaxTracks >= 2
    /\ play[1] = "done"
    /\ render[2] = "KeyboardInterrupt"
    /\ pc = "interrupted"
    /\ ExitStatus(pc) = 0

(* ------------------------ quit and the render ------------------------- *)

\* C16 as stated: while a render runs the quit flag is not set, and a render
\* that was started ends only because the engine exited (or could not be
\* started), never because the run was told to stop.
C16_RenderNeverInterrupted ==
    /\ pc = "render" => ~STOP_ALL
    /\ \A k \in Tracks : render[k] # "KeyboardInterrupt"

\* C16, amended: a quit key never interrupts a render. While a directory is
\* made and a render runs the quit flag is unset and was never written, and
\* no key was read for the track; a render ended by Ctrl+C ends the whole run
\* at the top-level handler with the flag still unset and the track not
\* played; and a set flag means that a playback returned "quit" after
\* terminate was sent to its process, that main is in that track's cleanup or
\* at the summary, and that no later track was started.
C16_QuitKeyNeverInterruptsRender ==
    /\ pc \in {"mkdtemp", "render"} =>
          /\ ~STOP_ALL
          /\ stopWrites = 0
          /\ lastEvent[idx] = "none"
    /\ \A k \in Tracks :
          render[k] = "KeyboardInterrupt" =>
             /\ pc = "interrupted"
             /\ idx = k
             /\ ~STOP_ALL
             /\ play[k] = "none"
    /\ STOP_ALL =>
          /\ play[idx] = "quit"
          /\ termSent[idx]
          /\ pc \in {"cleanup", "done"}
          /\ \A j \in Tracks : j > idx => Untouched(j)

\* A q was pressed while track 1 was rendered and is still unread, and
\* Ctrl+C then ended the render and the run.
C16_Witness ==
    /\ MaxTracks >= 1
    /\ render[1] = "KeyboardInterrupt"
    /\ keybuf # << >>
    /\ Head(keybuf) = "q"
    /\ ~STOP_ALL
    /\ pc = "interrupted"

(* --------------------------- child processes -------------------------- *)

\* The ffplay child of track k has been started and has not exited.
PlaybackAlive(k) == ffplay[k] \in {"running", "terminating"}

\* The number of child processes alive: the ffplay children, and the ffmpeg
\* child while subprocess.run waits for it.
ChildrenAlive ==
    Cardinality({ k \in Tracks : PlaybackAlive(k) }) + (IF pc = "render" THEN 1 ELSE 0)

\* C17: at most one child process is alive at any moment; when main is about
\* to remove a track's temporary directory that track's playback process has
\* exited, and when main makes the directory of a track, renders it or starts
\* its playback, the playback processes of all earlier tracks have exited.
C17_OneChildAtATime ==
    /\ ChildrenAlive <= 1
    /\ pc = "cleanup" => ~PlaybackAlive(idx)
    /\ pc \in {"mkdtemp", "render", "play"} =>
          \A k \in Tracks : k < idx => ~PlaybackAlive(k)

(* ------------------------- keys and tracks ---------------------------- *)

\* The keys that end a playback.
ControlKeys == {"n", "N", "q", "Q"}

\* The tracks whose playback a key ended.
EndedByKey ==
    { k \in Tracks : play[k] \in {"next", "quit"} /\ lastEvent[k] \in ControlKeys }

\* C18 as stated: a key that skips or quits the playback of a track was
\* pressed while that playback was going on (here: while its poll loop ran),
\* not before it and not during a render or an earlier track.
C18_KeyActsOnTrackPressed ==
    [][ ( /\ pc = "kbhit"
          /\ keybuf # << >>
          /\ keybuf' = Tail(keybuf)
          /\ KeyOutcome(Head(keybuf)) # "none" ) => HeadIsFresh ]_vars

\* C18, amended: a key acts on the track whose playback is polled when the key
\* is read, and only on it. Every playback ended by a key took one key of its
\* own out of the buffer and had terminate sent to its own process, a "quit"
\* leaves every later track untouched, and the keys counted as pressed during
\* the current poll loop are the last ones of the buffer.
C18_KeyActsOnTrackRead ==
    /\ Cardinality(EndedByKey) <= keysPressed - Len(keybuf)
    /\ \A k \in EndedByKey :
          /\ k <= idx
          /\ termSent[k]
          /\ play[k] = KeyOutcome(lastEvent[k])
          /\ play[k] = "quit" => idx = k /\ \A j \in Tracks : j > k => Untouched(j)
    /\ freshKeys <= Len(keybuf)
    /\ (~Polling /\ pc # "cleanup") => freshKeys = 0

\* An n read in the poll loop of track 1 skipped it; a second n, pressed
\* before the poll loop of track 2 began, is about to be read in that loop.
C18_Witness ==
    /\ MaxTracks >= 2
    /\ play[1] = "next"
    /\ lastEvent[1] = "n"
    /\ idx = 2
    /\ pc = "kbhit"
    /\ keybuf = << "n" >>
    /\ freshKeys = 0

(* ------------------------ the quit flag's frame ----------------------- *)

\* The playbacks that returned "quit".
QuitReturns == { k \in Tracks : play[k] = "quit" }

\* C20: the quit flag is set exactly when some playback has returned "quit",
\* and it was assigned once for each such return; playbacks that returned
\* "done" or "next", renders and removals leave it unset. So whenever main is
\* at the head of the track loop the flag is unset: the test "if STOP_ALL:
\* break" never finds it set.
C20_FlagIffQuitReturned ==
    /\ STOP_ALL <=> QuitReturns # {}
    /\ stopWrites = Cardinality(QuitReturns)
    /\ pc = "loop" => ~STOP_ALL
    /\ (\A k \in Tracks : play[k] \in {"none", "running", "done", "next"}) => ~STOP_ALL

\* Track 1 was skipped and main came back to the loop head with the flag
\* unset; track 2 then returned "quit" and the flag is set at the summary.
C20_Witness ==
    /\ MaxTracks >= 2
    /\ play[1] = "next"
    /\ cleanup[1] # "none"
    /\ play[2] = "quit"
    /\ STOP_ALL
    /\ stopWrites = 1
    /\ pc = "done"

(* ----------------------------- termination ---------------------------- *)

\* A render is started only for a track that had none before.
RenderStartsOnce ==
    \A k \in Tracks :
       (render[k] # "running" /\ render'[k] = "running") => render[k] = "none"

\* C19 as stated: when every render and every playback process exits, a run
\* with a playlist reaches the summary line, and no track's render is
\* started twice.
C19_RunReachesSummary ==
    /\ (idx >= 1) ~> (pc = "done")
    /\ [][RenderStartsOnce]_vars

\* C19, amended: when every render and every playback process exits, the
\* run ends; a run with a playlist ends at the summary line, at the top-level
\* KeyboardInterrupt handler, or with the traceback of a playback that could
\* not be started; and no track's render is started twice.
C19_RunEnds ==
    /\ <>Ended
    /\ (idx >= 1) ~> (pc \in {"done", "interrupted", "crashed"})
    /\ [][RenderStartsOnce]_vars

\* Both tracks were rendered and the summary line was reached.
C19_Witness ==
    /\ MaxTracks >= 2
    /\ Len(files) = 2
    /\ render[1] # "none"
    /\ render[2] = "ok"
    /\ play[2] = "done"
    /\ pc = "done"

====
